---- MODULE Spec2Model ----
(***************************************************************************)
(* Model of the beneficiary / case / service API route handlers           *)
(* (app/api/.../route.ts), the zod schemas of lib/validation.ts and the   *)
(* Prisma entity store they call.  Every handler is split at the awaited  *)
(* store calls, so that requests of different workers interleave exactly  *)
(* where the code can be pre-empted.                                      *)
(***************************************************************************)
EXTENDS Integers, Sequences, FiniteSets, TLC

VARIABLES beneficiaries, cases, services, auditLog, now, req

vars == <<beneficiaries, cases, services, auditLog, now, req>>

(***************************************************************************)
(* Bounds                                                                  *)
(***************************************************************************)
MaxRequests == 2
MaxBenRequests == 2
MaxCaseRequests == 3
MaxAccessRequests == 2
MaxRefRequests == 2
MaxEditRequests == 2
MaxResolveRequests == 2
MaxIntegRequests == 2
MaxFreshRequests == 3

Workers == {"w1", "w2"}

(***************************************************************************)
(* Markers: a JSON field that is missing (undefined) and SQL/JSON null.    *)
(* Row ids and timestamps are positive naturals, 0 is null.                *)
(***************************************************************************)
Absent == "absent"
Null == "null"
NoId == 0

(***************************************************************************)
(* Identity & roles (users of prisma/seed.ts plus the two roles it does    *)
(* not seed)                                                               *)
(***************************************************************************)
Users == {"root", "admin", "staff", "fw", "vol"}

RoleOf(u) ==
  CASE u = "root" -> "SUPER_ADMIN"
    [] u = "admin" -> "ADMIN"
    [] u = "staff" -> "STAFF"
    [] u = "fw" -> "FIELD_WORKER"
    [] u = "vol" -> "VOLUNTEER"
    [] OTHER -> Null

Sessions == Users \cup {Null}

\* mutant: the update and create routes also list VOLUNTEER
Editors_AndVolunteer == {"SUPER_ADMIN", "ADMIN", "STAFF", "FIELD_WORKER", "VOLUNTEER"}

\* requireRole([...]) of the create and update routes
Editors == {"SUPER_ADMIN", "ADMIN", "STAFF", "FIELD_WORKER"}

\* mutant: the delete routes also list STAFF
Admins_AndStaff == {"SUPER_ADMIN", "ADMIN", "STAFF"}

\* requireRole([...]) of the delete routes
Admins == {"SUPER_ADMIN", "ADMIN"}

\* lib/auth requireAuth: throws Error('Unauthorized') without a session
requireAuth(session) ==
  IF session = Null THEN "Unauthorized" ELSE "ok"

\* lib/auth requireRole: Unauthorized without a session, Forbidden when the
\* role is not listed
requireRole(session, roles) ==
  IF session = Null THEN "Unauthorized"
  ELSE IF RoleOf(session) \notin roles THEN "Forbidden"
  ELSE "ok"

(***************************************************************************)
(* Responses                                                               *)
(***************************************************************************)
Response(status, error, data) == [status |-> status, error |-> error, data |-> data]

NoResponse == Response(0, "", NoId)

DuplicateIdMsg == "A beneficiary with this ID number already exists"
ValidationMsg == "Validation error"

\* catch block of the read handlers: only Unauthorized is mapped, to 401
ReadAuthError(msg, failMsg) ==
  IF msg = "Unauthorized" THEN Response(401, "Unauthorized", NoId)
  ELSE Response(500, failMsg, NoId)

\* catch block of the mutating handlers: Unauthorized and Forbidden both 403
WriteAuthError(msg) == Response(403, msg, NoId)

(***************************************************************************)
(* lib/validation.ts, restricted to the fields the model carries           *)
(***************************************************************************)
BeneficiaryStatus == {"ACTIVE", "INACTIVE", "ARCHIVED", "DECEASED"}

\* beneficiarySchema.parse: firstName required and non-empty, idNumber
\* optional and nullable, status an enum member when present
beneficiarySchemaOk(body) ==
  /\ body.firstName \notin {Absent, Null, ""}
  /\ body.status \in BeneficiaryStatus \cup {Absent}

\* beneficiarySchema.partial().parse: every key optional, same type checks
beneficiaryPartialOk(body) ==
  /\ body.firstName \notin {Null, ""}
  /\ body.status \in BeneficiaryStatus \cup {Absent}

\* result of beneficiarySchema.parse: defaults filled in
beneficiaryParsed(body) ==
  [firstName |-> body.firstName,
   idNumber |-> IF body.idNumber = Absent THEN Null ELSE body.idNumber,
   status |-> IF body.status = Absent THEN "ACTIVE" ELSE body.status]

\* z.object(...).parse returns only the keys the schema declares: resolvedAt
\* and assignedTo (no keys of caseSchema) and assignedToId (no key of
\* beneficiarySchema) are dropped from the validated payload
StripUnknownKeys(body) ==
  [k \in DOMAIN body \ {"resolvedAt", "assignedTo", "assignedToId"} |-> body[k]]

\* JavaScript truthiness of an optional string
Truthy(s) == s \notin {Absent, Null, ""}

CaseStatus == {"OPEN", "IN_PROGRESS", "RESOLVED", "CLOSED"}

\* an id field of a JSON body: AbsentId when the key is missing
AbsentId == -1

\* caseSchema.parse: title required and non-empty, status an enum member
\* when present, beneficiaryId a required cuid
caseSchemaOk(body) ==
  /\ body.title \notin {Absent, Null, ""}
  /\ body.status \in CaseStatus \cup {Absent}
  /\ body.beneficiaryId \notin {AbsentId, NoId}

\* caseSchema.partial().parse
casePartialOk(body) ==
  /\ body.title \notin {Null, ""}
  /\ body.status \in CaseStatus \cup {Absent}
  /\ body.beneficiaryId # NoId

ServiceType == {"FOOD_DISTRIBUTION", "SHELTER_ADMISSION"}

\* serviceSchema.parse: type a required enum member, beneficiaryId a required
\* cuid, caseId an optional nullable cuid
serviceSchemaOk(body) ==
  /\ body.type \in ServiceType
  /\ body.beneficiaryId \notin {AbsentId, NoId}

\* serviceSchema.partial().parse
servicePartialOk(body) ==
  /\ body.type \in ServiceType \cup {Absent}
  /\ body.beneficiaryId # NoId

(***************************************************************************)
(* Entity store (Prisma on PostgreSQL)                                     *)
(***************************************************************************)
\* @default(cuid()): a fresh id, never reused; the seed holds ids 1 and 2
SeedCount == 2
NewId(rid) == SeedCount + rid

\* mutant: the column carries no unique index
UniqueViolation_NoIndex(rows, self, idNumber) == FALSE

\* @unique on Beneficiary.idNumber: NULLs never collide, equal strings do
UniqueViolation(rows, self, idNumber) ==
  /\ idNumber # Null
  /\ \E o \in DOMAIN rows : o # self /\ rows[o].idNumber = idNumber

\* prisma.beneficiary.findUnique({ where: { idNumber } })
FindByIdNumber(rows, idNumber) ==
  {o \in DOMAIN rows : rows[o].idNumber = idNumber}

Put(rows, id, row) == [k \in DOMAIN rows \cup {id} |-> IF k = id THEN row ELSE rows[k]]

\* mutant: the schema default of status is applied to a partial payload
ApplyBeneficiary_Defaulted(row, body) ==
  [row EXCEPT !.firstName = IF body.firstName = Absent THEN @ ELSE body.firstName,
              !.idNumber = IF body.idNumber = Absent THEN @ ELSE body.idNumber,
              !.status = IF body.status = Absent THEN "ACTIVE" ELSE body.status]

\* prisma update with a partial data object: undefined keys are skipped
ApplyBeneficiary(row, body) ==
  [row EXCEPT !.firstName = IF body.firstName = Absent THEN @ ELSE body.firstName,
              !.idNumber = IF body.idNumber = Absent THEN @ ELSE body.idNumber,
              !.status = IF body.status = Absent THEN @ ELSE body.status]

\* mutant: moving the status away from RESOLVED clears the stamp
ApplyCase_ClearOnReopen(row, body, resolvedAt) ==
  [row EXCEPT !.title = IF body.title = Absent THEN @ ELSE body.title,
              !.status = IF body.status = Absent THEN @ ELSE body.status,
              !.beneficiaryId = IF body.beneficiaryId = AbsentId THEN @ ELSE body.beneficiaryId,
              !.resolvedAt = IF resolvedAt # NoId THEN resolvedAt
                             ELSE IF body.status \in {Absent, "RESOLVED"} THEN @ ELSE NoId]

\* prisma case.update with a partial data object plus additionalData
ApplyCase(row, body, resolvedAt) ==
  [row EXCEPT !.title = IF body.title = Absent THEN @ ELSE body.title,
              !.status = IF body.status = Absent THEN @ ELSE body.status,
              !.beneficiaryId = IF body.beneficiaryId = AbsentId THEN @ ELSE body.beneficiaryId,
              !.resolvedAt = IF resolvedAt = NoId THEN @ ELSE resolvedAt]

\* prisma service.update with a partial data object
ApplyService(row, body) ==
  [row EXCEPT !.type = IF body.type = Absent THEN @ ELSE body.type,
              !.beneficiaryId = IF body.beneficiaryId = AbsentId THEN @ ELSE body.beneficiaryId,
              !.caseId = IF body.caseId = AbsentId THEN @ ELSE body.caseId]

Remove(rows, id) == [k \in DOMAIN rows \ {id} |-> rows[k]]

\* mutant: deleting a case leaves the services that name it as they are
OnCaseDelete_Dangling(svcs, caseId) == svcs

\* Service.case is an optional relation without an onDelete clause: Prisma's
\* default referential action for it is SetNull
OnCaseDelete(svcs, caseId) ==
  [k \in DOMAIN svcs |-> IF svcs[k].caseId = caseId THEN [svcs[k] EXCEPT !.caseId = NoId]
                         ELSE svcs[k]]

\* mutant: the Service table carries no foreign keys
ServiceFkOk_Unchecked(bens, cs, beneficiaryId, caseId) == TRUE

\* foreign keys of a Service row
ServiceFkOk(bens, cs, beneficiaryId, caseId) ==
  /\ beneficiaryId \in DOMAIN bens
  /\ caseId = NoId \/ caseId \in DOMAIN cs

\* an AuditLog row: details carries the entity id and, for updates, the
\* validated changes; rid stands for the row's own id
AuditEntry(action, target, changes, user, rid) ==
  [action |-> action, target |-> target, changes |-> changes, userId |-> user, rid |-> rid]

(***************************************************************************)
(* Requests in flight                                                      *)
(***************************************************************************)
NoBody == [none |-> TRUE]

\* what a list or dashboard read returns: the page of ids in the order of the
\* query, the pagination total, and the dashboard's activeCases count
NoList == [items |-> <<>>, total |-> 0, activeCases |-> 0]

\* pc, op, user, id, body are the request; seen is the status of the row the
\* handler read into `existing`, extra is additionalData.resolvedAt,
\* persisted tells that the handler's entity write has committed, list is
\* the payload of a list or dashboard answer
IdleReq == [pc |-> "idle", op |-> "none", rid |-> 0, user |-> Null, id |-> NoId,
            body |-> NoBody, seen |-> "", extra |-> NoId, persisted |-> FALSE,
            resp |-> NoResponse, list |-> NoList]

Free(w) == req[w].pc \in {"idle", "done"}

\* a request arrives: it takes the next request number, which is also the
\* reading of the clock (new Date()) during the request
Begin(op, user, id, body) ==
  [pc |-> "run", op |-> op, rid |-> now + 1, user |-> user, id |-> id,
   body |-> body, seen |-> "", extra |-> NoId, persisted |-> FALSE,
   resp |-> NoResponse, list |-> NoList]

Finish(r, resp) == [r EXCEPT !.pc = "done", !.resp = resp]

Goto(r, pc) == [r EXCEPT !.pc = pc]

\* the entity write committed: on to the audit write
Written(r, id) == [r EXCEPT !.pc = "audit", !.id = id, !.persisted = TRUE]

\* mutant: the archive handler logs the name lib/audit's usage notes give
AuditAction_Deleted(op) ==
  CASE op = "BeneficiaryPOST" -> "BENEFICIARY_CREATED"
    [] op = "BeneficiaryPATCH" -> "BENEFICIARY_UPDATED"
    [] op = "BeneficiaryDELETE" -> "BENEFICIARY_DELETED"
    [] op = "CasePOST" -> "CASE_CREATED"
    [] op = "CasePATCH" -> "CASE_UPDATED"
    [] op = "CaseDELETE" -> "CASE_DELETED"
    [] op = "ServicePOST" -> "SERVICE_CREATED"
    [] op = "ServicePATCH" -> "SERVICE_UPDATED"
    [] op = "ServiceDELETE" -> "SERVICE_DELETED"
    [] OTHER -> "NONE"

AuditAction(op) ==
  CASE op = "BeneficiaryPOST" -> "BENEFICIARY_CREATED"
    [] op = "BeneficiaryPATCH" -> "BENEFICIARY_UPDATED"
    [] op = "BeneficiaryDELETE" -> "BENEFICIARY_ARCHIVED"
    [] op = "CasePOST" -> "CASE_CREATED"
    [] op = "CasePATCH" -> "CASE_UPDATED"
    [] op = "CaseDELETE" -> "CASE_DELETED"
    [] op = "ServicePOST" -> "SERVICE_CREATED"
    [] op = "ServicePATCH" -> "SERVICE_UPDATED"
    [] op = "ServiceDELETE" -> "SERVICE_DELETED"
    [] OTHER -> "NONE"

SuccessStatus(op) ==
  IF op \in {"BeneficiaryPOST", "CasePOST", "ServicePOST"} THEN 201 ELSE 200

\* the generic 500 answer of each handler's catch block
FailMsg(op) ==
  CASE op = "BeneficiaryPOST" -> "Failed to create beneficiary"
    [] op = "BeneficiaryPATCH" -> "Failed to update beneficiary"
    [] op = "BeneficiaryDELETE" -> "Failed to delete beneficiary"
    [] op = "CasePOST" -> "Failed to create case"
    [] op = "CasePATCH" -> "Failed to update case"
    [] op = "CaseDELETE" -> "Failed to delete case"
    [] op = "ServicePOST" -> "Failed to create service"
    [] op = "ServicePATCH" -> "Failed to update service"
    [] op = "ServiceDELETE" -> "Failed to delete service"
    [] OTHER -> "Failed"

Internal(op) == Response(500, FailMsg(op), NoId)

(***************************************************************************)
(* Initial state: the store left by prisma/seed.ts                         *)
(***************************************************************************)
SeedBeneficiaries ==
  (1 :> [firstName |-> "Ahmad", idNumber |-> Null, status |-> "ACTIVE",
         createdById |-> "staff", assignedToId |-> Null]) @@
  (2 :> [firstName |-> "Siti", idNumber |-> Null, status |-> "ACTIVE",
         createdById |-> "fw", assignedToId |-> Null])

SeedCases ==
  (1 :> [title |-> "Emergency Shelter Required", status |-> "OPEN", beneficiaryId |-> 1,
         createdById |-> "staff", assignedTo |-> {}, resolvedAt |-> NoId]) @@
  (2 :> [title |-> "Monthly Food Aid", status |-> "IN_PROGRESS", beneficiaryId |-> 2,
         createdById |-> "fw", assignedTo |-> {}, resolvedAt |-> NoId])

SeedServices ==
  (1 :> [type |-> "SHELTER_ADMISSION", beneficiaryId |-> 1, caseId |-> 1,
         providedById |-> "staff"]) @@
  (2 :> [type |-> "FOOD_DISTRIBUTION", beneficiaryId |-> 2, caseId |-> 2,
         providedById |-> "fw"])

Init ==
  /\ beneficiaries = SeedBeneficiaries
  /\ cases = SeedCases
  /\ services = SeedServices
  /\ auditLog = <<>>
  /\ now = 0
  /\ req = [w \in Workers |-> IdleReq]

(***************************************************************************)
(* GET /api/beneficiaries/[id]                                             *)
(***************************************************************************)
\* mutant: only FIELD_WORKER is held to the rows it created or is assigned
BeneficiaryReadDenied_FieldWorkerOnly(user, row) ==
  /\ RoleOf(user) = "FIELD_WORKER"
  /\ row.createdById # user
  /\ row.assignedToId # user

BeneficiaryReadDenied(user, row) ==
  /\ RoleOf(user) \in {"VOLUNTEER", "FIELD_WORKER"}
  /\ row.createdById # user
  /\ row.assignedToId # user

BeneficiaryGET(w, user, id) ==
  /\ Free(w)
  /\ now' = now + 1
  /\ LET r == Begin("BeneficiaryGET", user, id, NoBody)
         auth == requireAuth(user)
         resp == IF auth # "ok" THEN ReadAuthError(auth, "Failed to fetch beneficiary")
                 ELSE IF id \notin DOMAIN beneficiaries
                   THEN Response(404, "Beneficiary not found", NoId)
                 ELSE IF BeneficiaryReadDenied(user, beneficiaries[id])
                   THEN Response(403, "Forbidden", NoId)
                 ELSE Response(200, "", id)
     IN req' = [req EXCEPT ![w] = Finish(r, resp)]
  /\ UNCHANGED <<beneficiaries, cases, services, auditLog>>

(***************************************************************************)
(* PATCH /api/beneficiaries/[id]                                           *)
(***************************************************************************)
BeneficiaryWriteDenied(user, row) ==
  /\ RoleOf(user) = "FIELD_WORKER"
  /\ row.createdById # user
  /\ row.assignedToId # user

\* requireRole, findUnique, permission check, partial parse
BeneficiaryPATCH(w, user, id, body) ==
  /\ Free(w)
  /\ now' = now + 1
  /\ LET r == Begin("BeneficiaryPATCH", user, id, body)
         auth == requireRole(user, Editors)
     IN req' = [req EXCEPT ![w] =
          IF auth # "ok" THEN Finish(r, WriteAuthError(auth))
          ELSE IF id \notin DOMAIN beneficiaries
            THEN Finish(r, Response(404, "Beneficiary not found", NoId))
          ELSE IF BeneficiaryWriteDenied(user, beneficiaries[id])
            THEN Finish(r, Response(403, "Forbidden", NoId))
          ELSE IF ~beneficiaryPartialOk(body)
            THEN Finish(r, Response(400, ValidationMsg, NoId))
          ELSE IF Truthy(body.idNumber) /\ body.idNumber # beneficiaries[id].idNumber
            THEN Goto(r, "lookup")
          ELSE Goto(r, "write")]
  /\ UNCHANGED <<beneficiaries, cases, services, auditLog>>

\* duplicate lookup: findUnique({ where: { idNumber } })
BeneficiaryPATCH_Lookup(w) ==
  /\ req[w].pc = "lookup" /\ req[w].op = "BeneficiaryPATCH"
  /\ req' = [req EXCEPT ![w] =
       IF FindByIdNumber(beneficiaries, req[w].body.idNumber) # {}
       THEN Finish(req[w], Response(400, DuplicateIdMsg, NoId))
       ELSE Goto(req[w], "write")]
  /\ UNCHANGED <<beneficiaries, cases, services, auditLog, now>>

\* prisma.beneficiary.update({ data: validated })
BeneficiaryPATCH_Update(w) ==
  /\ req[w].pc = "write" /\ req[w].op = "BeneficiaryPATCH"
  /\ LET r == req[w]
         row == ApplyBeneficiary(beneficiaries[r.id], r.body)
     IN IF UniqueViolation(beneficiaries, r.id, row.idNumber)
        THEN /\ req' = [req EXCEPT ![w] = Finish(r, Internal(r.op))]
             /\ UNCHANGED beneficiaries
        ELSE /\ beneficiaries' = Put(beneficiaries, r.id, row)
             /\ req' = [req EXCEPT ![w] = Written(r, r.id)]
  /\ UNCHANGED <<cases, services, auditLog, now>>

(***************************************************************************)
(* DELETE /api/beneficiaries/[id]: soft delete                             *)
(***************************************************************************)
BeneficiaryDELETE(w, user, id) ==
  /\ Free(w)
  /\ now' = now + 1
  /\ LET r == Begin("BeneficiaryDELETE", user, id, NoBody)
         auth == requireRole(user, Admins)
     IN req' = [req EXCEPT ![w] =
          IF auth # "ok" THEN Finish(r, WriteAuthError(auth))
          ELSE IF id \notin DOMAIN beneficiaries
            THEN Finish(r, Response(404, "Beneficiary not found", NoId))
          ELSE Goto(r, "write")]
  /\ UNCHANGED <<beneficiaries, cases, services, auditLog>>

\* mutant: archiving also scrubs the person's name
ArchivedRow_Scrubbed(row) == [row EXCEPT !.status = "ARCHIVED", !.firstName = "Archived"]

\* prisma.beneficiary.update({ data: { status: 'ARCHIVED' } })
ArchivedRow(row) == [row EXCEPT !.status = "ARCHIVED"]

\* mutant: the route deletes the row
BeneficiaryDELETE_Update_Hard(w) ==
  /\ req[w].pc = "write" /\ req[w].op = "BeneficiaryDELETE"
  /\ beneficiaries' = Remove(beneficiaries, req[w].id)
  /\ req' = [req EXCEPT ![w] = Written(req[w], req[w].id)]
  /\ UNCHANGED <<cases, services, auditLog, now>>

BeneficiaryDELETE_Update(w) ==
  /\ req[w].pc = "write" /\ req[w].op = "BeneficiaryDELETE"
  /\ beneficiaries' = Put(beneficiaries, req[w].id, ArchivedRow(beneficiaries[req[w].id]))
  /\ req' = [req EXCEPT ![w] = Written(req[w], req[w].id)]
  /\ UNCHANGED <<cases, services, auditLog, now>>

(***************************************************************************)
(* POST /api/beneficiaries                                                 *)
(***************************************************************************)
\* requireRole, parse, duplicate lookup
BeneficiaryPOST(w, user, body) ==
  /\ Free(w)
  /\ now' = now + 1
  /\ LET r == Begin("BeneficiaryPOST", user, NoId, body)
         auth == requireRole(user, Editors)
     IN req' = [req EXCEPT ![w] =
          IF auth # "ok" THEN Finish(r, WriteAuthError(auth))
          ELSE IF ~beneficiarySchemaOk(body) THEN Finish(r, Response(400, ValidationMsg, NoId))
          ELSE IF Truthy(body.idNumber) /\ FindByIdNumber(beneficiaries, body.idNumber) # {}
            THEN Finish(r, Response(400, DuplicateIdMsg, NoId))
          ELSE Goto(r, "write")]
  /\ UNCHANGED <<beneficiaries, cases, services, auditLog>>

\* mutant: the insert leaves the assignee empty
NewBeneficiary_Unassigned(v, user) ==
  [firstName |-> v.firstName, idNumber |-> v.idNumber, status |-> v.status,
   createdById |-> user, assignedToId |-> Null]

\* the row prisma.beneficiary.create inserts
NewBeneficiary(v, user) ==
  [firstName |-> v.firstName, idNumber |-> v.idNumber, status |-> v.status,
   createdById |-> user, assignedToId |-> user]

BeneficiaryPOST_Create(w) ==
  /\ req[w].pc = "write" /\ req[w].op = "BeneficiaryPOST"
  /\ LET r == req[w]
         v == beneficiaryParsed(r.body)
         id == NewId(r.rid)
     IN IF UniqueViolation(beneficiaries, id, v.idNumber)
        THEN /\ req' = [req EXCEPT ![w] = Finish(r, Internal(r.op))]
             /\ UNCHANGED beneficiaries
        ELSE /\ beneficiaries' = Put(beneficiaries, id, NewBeneficiary(v, r.user))
             /\ req' = [req EXCEPT ![w] = Written(r, id)]
  /\ UNCHANGED <<cases, services, auditLog, now>>

(***************************************************************************)
(* GET /api/cases/[id]                                                     *)
(***************************************************************************)
CaseReadDenied(user, row) ==
  /\ RoleOf(user) \in {"VOLUNTEER", "FIELD_WORKER"}
  /\ row.createdById # user
  /\ user \notin row.assignedTo

CaseGET(w, user, id) ==
  /\ Free(w)
  /\ now' = now + 1
  /\ LET r == Begin("CaseGET", user, id, NoBody)
         auth == requireAuth(user)
         resp == IF auth # "ok" THEN ReadAuthError(auth, "Failed to fetch case")
                 ELSE IF id \notin DOMAIN cases THEN Response(404, "Case not found", NoId)
                 ELSE IF CaseReadDenied(user, cases[id]) THEN Response(403, "Forbidden", NoId)
                 ELSE Response(200, "", id)
     IN req' = [req EXCEPT ![w] = Finish(r, resp)]
  /\ UNCHANGED <<beneficiaries, cases, services, auditLog>>

(***************************************************************************)
(* PATCH /api/cases/[id]                                                   *)
(***************************************************************************)
CaseWriteDenied(user, row) ==
  /\ RoleOf(user) = "FIELD_WORKER"
  /\ row.createdById # user
  /\ user \notin row.assignedTo

\* mutant: the stamp ignores the status of the row that was read
ResolvedStamp_Always(body, existing, time) ==
  IF body.status = "RESOLVED" THEN time ELSE NoId

\* additionalData.resolvedAt = new Date() when the payload says RESOLVED and
\* the row read at the start of the request does not
ResolvedStamp(body, existing, time) ==
  IF body.status = "RESOLVED" /\ existing.status # "RESOLVED" THEN time ELSE NoId

\* requireRole, findUnique, permission check, partial parse, additionalData
CasePATCH(w, user, id, body) ==
  /\ Free(w)
  /\ now' = now + 1
  /\ LET r == Begin("CasePATCH", user, id, body)
         auth == requireRole(user, Editors)
     IN req' = [req EXCEPT ![w] =
          IF auth # "ok" THEN Finish(r, WriteAuthError(auth))
          ELSE IF id \notin DOMAIN cases THEN Finish(r, Response(404, "Case not found", NoId))
          ELSE IF CaseWriteDenied(user, cases[id]) THEN Finish(r, Response(403, "Forbidden", NoId))
          ELSE IF ~casePartialOk(body) THEN Finish(r, Response(400, ValidationMsg, NoId))
          ELSE [r EXCEPT !.pc = "write", !.seen = cases[id].status,
                         !.extra = ResolvedStamp(body, cases[id], now')]]
  /\ UNCHANGED <<beneficiaries, cases, services, auditLog>>

\* prisma.case.update({ data: { ...validated, ...additionalData } })
CasePATCH_Update(w) ==
  /\ req[w].pc = "write" /\ req[w].op = "CasePATCH"
  /\ LET r == req[w]
     IN IF \/ r.id \notin DOMAIN cases
           \/ r.body.beneficiaryId # AbsentId /\ r.body.beneficiaryId \notin DOMAIN beneficiaries
        THEN /\ req' = [req EXCEPT ![w] = Finish(r, Internal(r.op))]
             /\ UNCHANGED cases
        ELSE /\ cases' = Put(cases, r.id, ApplyCase(cases[r.id], r.body, r.extra))
             /\ req' = [req EXCEPT ![w] = Written(r, r.id)]
  /\ UNCHANGED <<beneficiaries, services, auditLog, now>>

(***************************************************************************)
(* DELETE /api/cases/[id]                                                  *)
(***************************************************************************)
CaseDELETE(w, user, id) ==
  /\ Free(w)
  /\ now' = now + 1
  /\ LET r == Begin("CaseDELETE", user, id, NoBody)
         auth == requireRole(user, Admins)
     IN req' = [req EXCEPT ![w] =
          IF auth # "ok" THEN Finish(r, WriteAuthError(auth))
          ELSE IF id \notin DOMAIN cases THEN Finish(r, Response(404, "Case not found", NoId))
          ELSE Goto(r, "write")]
  /\ UNCHANGED <<beneficiaries, cases, services, auditLog>>

\* prisma.case.delete
CaseDELETE_Delete(w) ==
  /\ req[w].pc = "write" /\ req[w].op = "CaseDELETE"
  /\ LET r == req[w]
     IN IF r.id \notin DOMAIN cases
        THEN /\ req' = [req EXCEPT ![w] = Finish(r, Internal(r.op))]
             /\ UNCHANGED <<cases, services>>
        ELSE /\ cases' = Remove(cases, r.id)
             /\ services' = OnCaseDelete(services, r.id)
             /\ req' = [req EXCEPT ![w] = Written(r, r.id)]
  /\ UNCHANGED <<beneficiaries, auditLog, now>>

(***************************************************************************)
(* POST /api/cases                                                         *)
(***************************************************************************)
\* mutant: a case may only be opened on a beneficiary the actor may update
CasePOST_OwnersOnly(w, user, body) ==
  /\ Free(w)
  /\ now' = now + 1
  /\ LET r == Begin("CasePOST", user, NoId, body)
         auth == requireRole(user, Editors)
     IN req' = [req EXCEPT ![w] =
          IF auth # "ok" THEN Finish(r, WriteAuthError(auth))
          ELSE IF ~caseSchemaOk(body) THEN Finish(r, Response(400, ValidationMsg, NoId))
          ELSE IF body.beneficiaryId \notin DOMAIN beneficiaries
            THEN Finish(r, Response(404, "Beneficiary not found", NoId))
          ELSE IF /\ RoleOf(user) \in {"STAFF", "FIELD_WORKER"}
                  /\ beneficiaries[body.beneficiaryId].createdById # user
                  /\ beneficiaries[body.beneficiaryId].assignedToId # user
            THEN Finish(r, Response(403, "Forbidden", NoId))
          ELSE Goto(r, "write")]
  /\ UNCHANGED <<beneficiaries, cases, services, auditLog>>

\* requireRole, parse, beneficiary lookup
CasePOST(w, user, body) ==
  /\ Free(w)
  /\ now' = now + 1
  /\ LET r == Begin("CasePOST", user, NoId, body)
         auth == requireRole(user, Editors)
     IN req' = [req EXCEPT ![w] =
          IF auth # "ok" THEN Finish(r, WriteAuthError(auth))
          ELSE IF ~caseSchemaOk(body) THEN Finish(r, Response(400, ValidationMsg, NoId))
          ELSE IF body.beneficiaryId \notin DOMAIN beneficiaries
            THEN Finish(r, Response(404, "Beneficiary not found", NoId))
          ELSE Goto(r, "write")]
  /\ UNCHANGED <<beneficiaries, cases, services, auditLog>>

\* the row prisma.case.create inserts: status defaults to OPEN, no assignee,
\* resolvedAt null
NewCase(body, user) ==
  [title |-> body.title, status |-> IF body.status = Absent THEN "OPEN" ELSE body.status,
   beneficiaryId |-> body.beneficiaryId, createdById |-> user, assignedTo |-> {},
   resolvedAt |-> NoId]

CasePOST_Create(w) ==
  /\ req[w].pc = "write" /\ req[w].op = "CasePOST"
  /\ LET r == req[w]
         id == NewId(r.rid)
     IN IF r.body.beneficiaryId \notin DOMAIN beneficiaries
        THEN /\ req' = [req EXCEPT ![w] = Finish(r, Internal(r.op))]
             /\ UNCHANGED cases
        ELSE /\ cases' = Put(cases, id, NewCase(r.body, r.user))
             /\ req' = [req EXCEPT ![w] = Written(r, id)]
  /\ UNCHANGED <<beneficiaries, services, auditLog, now>>

(***************************************************************************)
(* GET /api/services/[id]                                                  *)
(***************************************************************************)
ServiceReadDenied(user, row) ==
  /\ RoleOf(user) \in {"VOLUNTEER", "FIELD_WORKER"}
  /\ row.providedById # user

ServiceGET(w, user, id) ==
  /\ Free(w)
  /\ now' = now + 1
  /\ LET r == Begin("ServiceGET", user, id, NoBody)
         auth == requireAuth(user)
         resp == IF auth # "ok" THEN ReadAuthError(auth, "Failed to fetch service")
                 ELSE IF id \notin DOMAIN services THEN Response(404, "Service not found", NoId)
                 ELSE IF ServiceReadDenied(user, services[id]) THEN Response(403, "Forbidden", NoId)
                 ELSE Response(200, "", id)
     IN req' = [req EXCEPT ![w] = Finish(r, resp)]
  /\ UNCHANGED <<beneficiaries, cases, services, auditLog>>

(***************************************************************************)
(* PATCH /api/services/[id]                                                *)
(***************************************************************************)
ServiceWriteDenied(user, row) ==
  /\ RoleOf(user) = "FIELD_WORKER"
  /\ row.providedById # user

ServicePATCH(w, user, id, body) ==
  /\ Free(w)
  /\ now' = now + 1
  /\ LET r == Begin("ServicePATCH", user, id, body)
         auth == requireRole(user, Editors)
     IN req' = [req EXCEPT ![w] =
          IF auth # "ok" THEN Finish(r, WriteAuthError(auth))
          ELSE IF id \notin DOMAIN services THEN Finish(r, Response(404, "Service not found", NoId))
          ELSE IF ServiceWriteDenied(user, services[id]) THEN Finish(r, Response(403, "Forbidden", NoId))
          ELSE IF ~servicePartialOk(body) THEN Finish(r, Response(400, ValidationMsg, NoId))
          ELSE Goto(r, "write")]
  /\ UNCHANGED <<beneficiaries, cases, services, auditLog>>

\* prisma.service.update({ data: validated })
ServicePATCH_Update(w) ==
  /\ req[w].pc = "write" /\ req[w].op = "ServicePATCH"
  /\ LET r == req[w]
     IN IF r.id \notin DOMAIN services
        THEN /\ req' = [req EXCEPT ![w] = Finish(r, Internal(r.op))]
             /\ UNCHANGED services
        ELSE LET row == ApplyService(services[r.id], r.body)
             IN IF ~ServiceFkOk(beneficiaries, cases, row.beneficiaryId, row.caseId)
                THEN /\ req' = [req EXCEPT ![w] = Finish(r, Internal(r.op))]
                     /\ UNCHANGED services
                ELSE /\ services' = Put(services, r.id, row)
                     /\ req' = [req EXCEPT ![w] = Written(r, r.id)]
  /\ UNCHANGED <<beneficiaries, cases, auditLog, now>>

(***************************************************************************)
(* DELETE /api/services/[id]                                               *)
(***************************************************************************)
ServiceDELETE(w, user, id) ==
  /\ Free(w)
  /\ now' = now + 1
  /\ LET r == Begin("ServiceDELETE", user, id, NoBody)
         auth == requireRole(user, Admins)
     IN req' = [req EXCEPT ![w] =
          IF auth # "ok" THEN Finish(r, WriteAuthError(auth))
          ELSE IF id \notin DOMAIN services THEN Finish(r, Response(404, "Service not found", NoId))
          ELSE Goto(r, "write")]
  /\ UNCHANGED <<beneficiaries, cases, services, auditLog>>

\* prisma.service.delete
ServiceDELETE_Delete(w) ==
  /\ req[w].pc = "write" /\ req[w].op = "ServiceDELETE"
  /\ LET r == req[w]
     IN IF r.id \notin DOMAIN services
        THEN /\ req' = [req EXCEPT ![w] = Finish(r, Internal(r.op))]
             /\ UNCHANGED services
        ELSE /\ services' = Remove(services, r.id)
             /\ req' = [req EXCEPT ![w] = Written(r, r.id)]
  /\ UNCHANGED <<beneficiaries, cases, auditLog, now>>

(***************************************************************************)
(* POST /api/services                                                      *)
(***************************************************************************)
\* requireRole, parse, beneficiary lookup
ServicePOST(w, user, body) ==
  /\ Free(w)
  /\ now' = now + 1
  /\ LET r == Begin("ServicePOST", user, NoId, body)
         auth == requireRole(user, Editors)
     IN req' = [req EXCEPT ![w] =
          IF auth # "ok" THEN Finish(r, WriteAuthError(auth))
          ELSE IF ~serviceSchemaOk(body) THEN Finish(r, Response(400, ValidationMsg, NoId))
          ELSE IF body.beneficiaryId \notin DOMAIN beneficiaries
            THEN Finish(r, Response(404, "Beneficiary not found", NoId))
          ELSE IF body.caseId \notin {AbsentId, NoId} THEN Goto(r, "lookup")
          ELSE Goto(r, "write")]
  /\ UNCHANGED <<beneficiaries, cases, services, auditLog>>

\* mutant: the named case must belong to the named beneficiary
ServicePOST_FindCase_SameBeneficiary(w) ==
  /\ req[w].pc = "lookup" /\ req[w].op = "ServicePOST"
  /\ req' = [req EXCEPT ![w] =
       IF req[w].body.caseId \notin DOMAIN cases
       THEN Finish(req[w], Response(404, "Case not found", NoId))
       ELSE IF cases[req[w].body.caseId].beneficiaryId # req[w].body.beneficiaryId
       THEN Finish(req[w], Response(400, ValidationMsg, NoId))
       ELSE Goto(req[w], "write")]
  /\ UNCHANGED <<beneficiaries, cases, services, auditLog, now>>

\* case lookup, only when the payload names a case
ServicePOST_FindCase(w) ==
  /\ req[w].pc = "lookup" /\ req[w].op = "ServicePOST"
  /\ req' = [req EXCEPT ![w] =
       IF req[w].body.caseId \notin DOMAIN cases
       THEN Finish(req[w], Response(404, "Case not found", NoId))
       ELSE Goto(req[w], "write")]
  /\ UNCHANGED <<beneficiaries, cases, services, auditLog, now>>

\* the row prisma.service.create inserts
NewService(body, user) ==
  [type |-> body.type, beneficiaryId |-> body.beneficiaryId,
   caseId |-> IF body.caseId = AbsentId THEN NoId ELSE body.caseId,
   providedById |-> user]

ServicePOST_Create(w) ==
  /\ req[w].pc = "write" /\ req[w].op = "ServicePOST"
  /\ LET r == req[w]
         id == NewId(r.rid)
         row == NewService(r.body, r.user)
     IN IF ~ServiceFkOk(beneficiaries, cases, row.beneficiaryId, row.caseId)
        THEN /\ req' = [req EXCEPT ![w] = Finish(r, Internal(r.op))]
             /\ UNCHANGED services
        ELSE /\ services' = Put(services, id, row)
             /\ req' = [req EXCEPT ![w] = Written(r, id)]
  /\ UNCHANGED <<beneficiaries, cases, auditLog, now>>

(***************************************************************************)
(* prisma.auditLog.create, the last awaited call of every mutating handler *)
(***************************************************************************)
AuditFor(r) ==
  AuditEntry(AuditAction(r.op), r.id,
             IF r.op \in {"BeneficiaryPATCH", "CasePATCH", "ServicePATCH"}
             THEN StripUnknownKeys(r.body) ELSE NoBody,
             r.user, r.rid)

\* mutant: the audit table keeps only the latest entry
AuditWrite_Overwrite(w) ==
  /\ req[w].pc = "audit"
  /\ auditLog' = <<AuditFor(req[w])>>
  /\ req' = [req EXCEPT ![w] = Finish(req[w], Response(SuccessStatus(req[w].op), "", req[w].id))]
  /\ UNCHANGED <<beneficiaries, cases, services, now>>

AuditWrite(w) ==
  /\ req[w].pc = "audit"
  /\ auditLog' = Append(auditLog, AuditFor(req[w]))
  /\ req' = [req EXCEPT ![w] = Finish(req[w], Response(SuccessStatus(req[w].op), "", req[w].id))]
  /\ UNCHANGED <<beneficiaries, cases, services, now>>

\* the audit insert throws (storage failure): the catch block answers 500
AuditWriteFails(w) ==
  /\ req[w].pc = "audit"
  /\ req' = [req EXCEPT ![w] = Finish(req[w], Internal(req[w].op))]
  /\ UNCHANGED <<beneficiaries, cases, services, auditLog, now>>

(***************************************************************************)
(* List queries: where clause, count, findMany with skip/take              *)
(***************************************************************************)
\* case folding of the names the model carries (mode: 'insensitive')
Fold(s) ==
  CASE s = "Ahmad" -> "ahmad"
    [] s = "AHMAD" -> "ahmad"
    [] s = "Siti" -> "siti"
    [] s = "Ali" -> "ali"
    [] OTHER -> s

\* the substrings of a folded value that the searches of the model can hit
Fragments(s) ==
  CASE s = "ahmad" -> {"ahmad", "ahm", "a"}
    [] s = "siti" -> {"siti", "sit", "s"}
    [] s = "ali" -> {"ali", "a"}
    [] s = "A1" -> {"A1", "A"}
    [] OTHER -> {s}

\* { contains: search, mode: 'insensitive' }
ContainsInsensitive(value, search) ==
  value # Null /\ Fold(search) \in Fragments(Fold(value))

\* { contains: search }
Contains(value, search) ==
  value # Null /\ search \in Fragments(value)

\* the search OR: firstName (insensitive) or idNumber
SearchMatches(row, search) ==
  ContainsInsensitive(row.firstName, search) \/ Contains(row.idNumber, search)

\* orderBy createdAt desc: ids grow with the time of creation
RECURSIVE DescIds(_)
DescIds(S) ==
  IF S = {} THEN <<>>
  ELSE LET m == CHOOSE x \in S : \A y \in S : y <= x
       IN <<m>> \o DescIds(S \ {m})

\* skip and take of findMany
Page(seq, skip, take) ==
  SubSeq(seq, skip + 1, IF skip + take < Len(seq) THEN skip + take ELSE Len(seq))

\* the roles the list handlers and the dashboard restrict
ListScoped(user) == RoleOf(user) \in {"VOLUNTEER", "FIELD_WORKER"}

\* the where object of the beneficiary list: the role filter assigns where.OR
\* after the search did, so for a restricted role it replaces the search
BeneficiaryWhere(user, q, row) ==
  /\ q.status # "" => row.status = q.status
  /\ IF ListScoped(user)
     THEN row.createdById = user \/ row.assignedToId = user
     ELSE q.search # "" => SearchMatches(row, q.search)

CaseWhere(user, q, row) ==
  /\ q.status # "" => row.status = q.status
  /\ q.beneficiaryId # NoId => row.beneficiaryId = q.beneficiaryId
  /\ ListScoped(user) => (row.createdById = user \/ user \in row.assignedTo)

ServiceWhere(user, q, row) ==
  /\ q.type # "" => row.type = q.type
  /\ q.caseId # NoId => row.caseId = q.caseId
  /\ ListScoped(user) => row.providedById = user

\* count({ where }) and findMany({ where, skip, take, orderBy })
ListResult(matching, page, limit) ==
  [items |-> Page(DescIds(matching), (page - 1) * limit, limit),
   total |-> Cardinality(matching), activeCases |-> 0]

\* mutant: the list routes answer without looking at the session
ListAnswer_Open(r, auth, failMsg, result) ==
  [Finish(r, Response(200, "", NoId)) EXCEPT !.list = result]

\* requireAuth's throw is caught and mapped; otherwise the page is returned
ListAnswer(r, auth, failMsg, result) ==
  IF auth # "ok" THEN Finish(r, ReadAuthError(auth, failMsg))
  ELSE [Finish(r, Response(200, "", NoId)) EXCEPT !.list = result]

\* GET /api/beneficiaries
BeneficiaryLIST(w, user, q) ==
  /\ Free(w)
  /\ now' = now + 1
  /\ LET r == Begin("BeneficiaryLIST", user, NoId, q)
         matching == {b \in DOMAIN beneficiaries : BeneficiaryWhere(user, q, beneficiaries[b])}
     IN req' = [req EXCEPT ![w] =
          ListAnswer(r, requireAuth(user), "Failed to fetch beneficiaries",
                     ListResult(matching, q.page, q.limit))]
  /\ UNCHANGED <<beneficiaries, cases, services, auditLog>>

\* GET /api/cases
CaseLIST(w, user, q) ==
  /\ Free(w)
  /\ now' = now + 1
  /\ LET r == Begin("CaseLIST", user, NoId, q)
         matching == {c \in DOMAIN cases : CaseWhere(user, q, cases[c])}
     IN req' = [req EXCEPT ![w] =
          ListAnswer(r, requireAuth(user), "Failed to fetch cases",
                     ListResult(matching, q.page, q.limit))]
  /\ UNCHANGED <<beneficiaries, cases, services, auditLog>>

\* GET /api/services
ServiceLIST(w, user, q) ==
  /\ Free(w)
  /\ now' = now + 1
  /\ LET r == Begin("ServiceLIST", user, NoId, q)
         matching == {v \in DOMAIN services : ServiceWhere(user, q, services[v])}
     IN req' = [req EXCEPT ![w] =
          ListAnswer(r, requireAuth(user), "Failed to fetch services",
                     ListResult(matching, q.page, q.limit))]
  /\ UNCHANGED <<beneficiaries, cases, services, auditLog>>

\* mutant: the dashboard read is recorded in the audit log
DashboardGET_Logged(w, user) ==
  /\ Free(w)
  /\ now' = now + 1
  /\ req' = [req EXCEPT ![w] =
       ListAnswer(Begin("DashboardGET", user, NoId, NoBody), requireAuth(user),
                  "Failed to fetch dashboard statistics", NoList)]
  /\ auditLog' = Append(auditLog, AuditEntry("DASHBOARD_VIEWED", NoId, NoBody, user, now'))
  /\ UNCHANGED <<beneficiaries, cases, services>>

\* GET /api/dashboard/stats: totalBeneficiaries, activeCases and
\* recentActivity (the date-window service counts are not carried)
DashboardGET(w, user) ==
  /\ Free(w)
  /\ now' = now + 1
  /\ LET r == Begin("DashboardGET", user, NoId, NoBody)
         inScope == {b \in DOMAIN beneficiaries :
                      ListScoped(user) => (\/ beneficiaries[b].createdById = user
                                           \/ beneficiaries[b].assignedToId = user)}
         active == {b \in inScope : beneficiaries[b].status = "ACTIVE"}
         open == {c \in DOMAIN cases :
                   /\ ListScoped(user) => (\/ cases[c].createdById = user
                                           \/ user \in cases[c].assignedTo)
                   /\ cases[c].status \in {"OPEN", "IN_PROGRESS"}}
     IN req' = [req EXCEPT ![w] =
          ListAnswer(r, requireAuth(user), "Failed to fetch dashboard statistics",
                     [items |-> Page(DescIds(inScope), 0, 5),
                      total |-> Cardinality(active),
                      activeCases |-> Cardinality(open)])]
  /\ UNCHANGED <<beneficiaries, cases, services, auditLog>>

(***************************************************************************)
(* Inputs                                                                  *)
(***************************************************************************)
Targets == {1, 2, 9}

BenCreateBodies ==
  {[firstName |-> f, idNumber |-> i, status |-> Absent] : f \in {"", "Ali"}, i \in {Absent, "A1"}}

BenPatchBodies ==
  {[firstName |-> f, idNumber |-> Absent, status |-> s] :
     f \in {Absent, "Ali"}, s \in {Absent, "ACTIVE", "BOGUS"}}

CaseCreateBodies ==
  {[title |-> t, status |-> Absent, beneficiaryId |-> b] : t \in {"", "T"}, b \in {1, 9}}

CasePatchBodies ==
  {[title |-> Absent, status |-> s, beneficiaryId |-> AbsentId] : s \in {Absent, "RESOLVED", "BOGUS"}}

ServiceCreateBodies ==
  {[type |-> t, beneficiaryId |-> 1, caseId |-> c] :
     t \in {"BOGUS", "FOOD_DISTRIBUTION"}, c \in {AbsentId, 1, 9}}

ServicePatchBodies ==
  {[type |-> t, beneficiaryId |-> AbsentId, caseId |-> AbsentId] :
     t \in {"BOGUS", "FOOD_DISTRIBUTION"}}

(***************************************************************************)
(* Specification: one worker, every handler                                *)
(***************************************************************************)
Arrive(w) ==
  /\ now < MaxRequests
  /\ \E u \in Sessions :
       \/ \E id \in Targets : BeneficiaryGET(w, u, id)
       \/ \E id \in Targets, b \in BenPatchBodies : BeneficiaryPATCH(w, u, id, b)
       \/ \E id \in Targets : BeneficiaryDELETE(w, u, id)
       \/ \E b \in BenCreateBodies : BeneficiaryPOST(w, u, b)
       \/ \E id \in Targets : CaseGET(w, u, id)
       \/ \E id \in Targets, b \in CasePatchBodies : CasePATCH(w, u, id, b)
       \/ \E id \in Targets : CaseDELETE(w, u, id)
       \/ \E b \in CaseCreateBodies : CasePOST(w, u, b)
       \/ \E id \in Targets : ServiceGET(w, u, id)
       \/ \E id \in Targets, b \in ServicePatchBodies : ServicePATCH(w, u, id, b)
       \/ \E id \in Targets : ServiceDELETE(w, u, id)
       \/ \E b \in ServiceCreateBodies : ServicePOST(w, u, b)

Step(w) ==
  \/ BeneficiaryPATCH_Update(w)
  \/ BeneficiaryDELETE_Update(w)
  \/ BeneficiaryPOST_Create(w)
  \/ CasePATCH_Update(w)
  \/ CaseDELETE_Delete(w)
  \/ CasePOST_Create(w)
  \/ ServicePATCH_Update(w)
  \/ ServiceDELETE_Delete(w)
  \/ ServicePOST_FindCase(w)
  \/ ServicePOST_Create(w)
  \/ AuditWrite(w)
  \/ AuditWriteFails(w)

Next == Arrive("w1") \/ Step("w1")

Spec == Init /\ [][Next]_vars

(***************************************************************************)
(* Specification: two workers racing on the beneficiary handlers           *)
(***************************************************************************)
BenSessions == {"admin", "staff", "fw"}

BenRaceTargets == {1, 3}

BenRaceCreateBodies ==
  {[firstName |-> "Ali", idNumber |-> i, status |-> Absent] : i \in {Absent, "", "A1"}}

BenRacePatchBodies ==
  {[firstName |-> f, idNumber |-> i, status |-> s] :
     f \in {Absent, "Ali"}, i \in {Absent, "A1"}, s \in {Absent, "ACTIVE"}}

BenArrive(w) ==
  /\ now < MaxBenRequests
  /\ \E u \in BenSessions :
       \/ \E b \in BenRaceCreateBodies : BeneficiaryPOST(w, u, b)
       \/ \E id \in BenRaceTargets, b \in BenRacePatchBodies : BeneficiaryPATCH(w, u, id, b)
       \/ \E id \in BenRaceTargets : BeneficiaryDELETE(w, u, id)

BenStep(w) ==
  \/ BeneficiaryPOST_Create(w)
  \/ BeneficiaryPATCH_Lookup(w)
  \/ BeneficiaryPATCH_Update(w)
  \/ BeneficiaryDELETE_Update(w)
  \/ AuditWrite(w)
  \/ AuditWriteFails(w)

NextBen == \E w \in Workers : BenArrive(w) \/ BenStep(w)

SpecBen == Init /\ [][NextBen]_vars

(***************************************************************************)
(* Specification: sequences of case updates                                *)
(***************************************************************************)
CaseSessions == {"admin", "staff", "fw"}

CaseRaceTargets == {1, 2}

CaseRacePatchBodies ==
  {[title |-> Absent, status |-> s, beneficiaryId |-> AbsentId] :
     s \in {Absent, "IN_PROGRESS", "RESOLVED", "CLOSED"}}

CaseArrive(w) ==
  /\ now < MaxCaseRequests
  /\ \E u \in CaseSessions, id \in CaseRaceTargets, b \in CaseRacePatchBodies :
       CasePATCH(w, u, id, b)

CaseStep(w) ==
  \/ CasePATCH_Update(w)
  \/ AuditWrite(w)
  \/ AuditWriteFails(w)

NextCase == CaseArrive("w1") \/ CaseStep("w1")

SpecCase == Init /\ [][NextCase]_vars

(***************************************************************************)
(* Specification: every route, reads and lists included, called with and   *)
(* without a session                                                       *)
(***************************************************************************)
AccessSessions == {Null, "vol", "fw", "staff", "admin"}

AccessTargets == {2}

AccessBenPatchBodies ==
  {[firstName |-> Absent, idNumber |-> Absent, status |-> s] : s \in {"INACTIVE", "ARCHIVED"}}

AccessBenCreateBodies ==
  {[firstName |-> "Ali", idNumber |-> Absent, status |-> s] : s \in {Absent, "ARCHIVED"}}

AccessCasePatchBodies == {[title |-> Absent, status |-> "CLOSED", beneficiaryId |-> AbsentId]}

AccessCaseCreateBodies == {[title |-> "T", status |-> Absent, beneficiaryId |-> 2]}

AccessServicePatchBodies ==
  {[type |-> "FOOD_DISTRIBUTION", beneficiaryId |-> AbsentId, caseId |-> AbsentId]}

AccessServiceCreateBodies ==
  {[type |-> "FOOD_DISTRIBUTION", beneficiaryId |-> 2, caseId |-> AbsentId]}

\* searchParams of the list routes; page and limit at their defaults
BeneficiaryQueries ==
  {[search |-> s, status |-> st, page |-> 1, limit |-> 10] :
     s \in {"", "AHMAD"}, st \in {"", "ARCHIVED"}}

CaseQueries ==
  {[status |-> st, beneficiaryId |-> NoId, page |-> 1, limit |-> 10] : st \in {"", "OPEN"}}

ServiceQueries ==
  {[type |-> t, caseId |-> NoId, page |-> 1, limit |-> 10] : t \in {"", "SHELTER_ADMISSION"}}

AccessArrive(w) ==
  /\ now < MaxAccessRequests
  /\ \E u \in AccessSessions :
       \/ \E id \in AccessTargets : BeneficiaryGET(w, u, id)
       \/ \E id \in AccessTargets, b \in AccessBenPatchBodies : BeneficiaryPATCH(w, u, id, b)
       \/ \E id \in AccessTargets : BeneficiaryDELETE(w, u, id)
       \/ \E b \in AccessBenCreateBodies : BeneficiaryPOST(w, u, b)
       \/ \E q \in BeneficiaryQueries : BeneficiaryLIST(w, u, q)
       \/ \E id \in AccessTargets : CaseGET(w, u, id)
       \/ \E id \in AccessTargets, b \in AccessCasePatchBodies : CasePATCH(w, u, id, b)
       \/ \E id \in AccessTargets : CaseDELETE(w, u, id)
       \/ \E b \in AccessCaseCreateBodies : CasePOST(w, u, b)
       \/ \E q \in CaseQueries : CaseLIST(w, u, q)
       \/ \E id \in AccessTargets : ServiceGET(w, u, id)
       \/ \E id \in AccessTargets, b \in AccessServicePatchBodies : ServicePATCH(w, u, id, b)
       \/ \E id \in AccessTargets : ServiceDELETE(w, u, id)
       \/ \E b \in AccessServiceCreateBodies : ServicePOST(w, u, b)
       \/ \E q \in ServiceQueries : ServiceLIST(w, u, q)
       \/ DashboardGET(w, u)

AccessStep(w) ==
  \/ BeneficiaryPATCH_Update(w)
  \/ BeneficiaryDELETE_Update(w)
  \/ BeneficiaryPOST_Create(w)
  \/ CasePATCH_Update(w)
  \/ CaseDELETE_Delete(w)
  \/ CasePOST_Create(w)
  \/ ServicePATCH_Update(w)
  \/ ServiceDELETE_Delete(w)
  \/ ServicePOST_Create(w)
  \/ AuditWrite(w)
  \/ AuditWriteFails(w)

NextAccess == AccessArrive("w1") \/ AccessStep("w1")

SpecAccess == Init /\ [][NextAccess]_vars

(***************************************************************************)
(* Specification: two workers, creates that name a beneficiary or a case   *)
(* racing with the deletion of the case                                    *)
(***************************************************************************)
RefSessions == {"admin", "fw"}

RefCaseCreateBodies ==
  {[title |-> "T", status |-> Absent, beneficiaryId |-> b] : b \in {1, 9}}

RefServiceCreateBodies ==
  {[type |-> "FOOD_DISTRIBUTION", beneficiaryId |-> b, caseId |-> c] :
     b \in {1, 9}, c \in {AbsentId, 1, 9}}

RefArrive(w) ==
  /\ now < MaxRefRequests
  /\ \E u \in RefSessions :
       \/ \E b \in RefCaseCreateBodies : CasePOST(w, u, b)
       \/ \E b \in RefServiceCreateBodies : ServicePOST(w, u, b)
       \/ CaseDELETE(w, u, 1)

RefStep(w) ==
  \/ CasePOST_Create(w)
  \/ ServicePOST_FindCase(w)
  \/ ServicePOST_Create(w)
  \/ CaseDELETE_Delete(w)
  \/ AuditWrite(w)
  \/ AuditWriteFails(w)

NextRef == \E w \in Workers : RefArrive(w) \/ RefStep(w)

SpecRef == Init /\ [][NextRef]_vars

(***************************************************************************)
(* Specification: one worker, updates and creates whose payloads carry     *)
(* foreign keys, malformed fields and keys outside the schemas             *)
(***************************************************************************)
EditSessions == {"admin", "staff", "fw", "vol"}

EditBenCreateBodies ==
  {[firstName |-> "Ali", idNumber |-> Absent, status |-> Absent, assignedToId |-> a] :
     a \in {Absent, "staff"}}
  \cup {[firstName |-> "", idNumber |-> Absent, status |-> Absent, assignedToId |-> Absent]}

EditBenPatchBodies ==
  {[firstName |-> f, idNumber |-> Absent, status |-> Absent] : f \in {"", "Ali"}}

EditCaseCreateBodies ==
  {[title |-> "T", status |-> s, beneficiaryId |-> 1] : s \in {Absent, "RESOLVED"}}

EditCasePatchBodies ==
  {[title |-> Absent, status |-> s, beneficiaryId |-> AbsentId, resolvedAt |-> Absent] :
     s \in {"RESOLVED", "IN_PROGRESS", "BOGUS"}}
  \cup {[title |-> Absent, status |-> Absent, beneficiaryId |-> b, resolvedAt |-> Absent] :
          b \in {2, 9}}
  \cup {[title |-> "T", status |-> Absent, beneficiaryId |-> AbsentId, resolvedAt |-> t] :
          t \in {Null, "2020-01-01"}}

EditServicePatchBodies ==
  {[type |-> "BOGUS", beneficiaryId |-> AbsentId, caseId |-> AbsentId],
   [type |-> Absent, beneficiaryId |-> 9, caseId |-> AbsentId],
   [type |-> Absent, beneficiaryId |-> AbsentId, caseId |-> 9],
   [type |-> Absent, beneficiaryId |-> AbsentId, caseId |-> 2]}

EditArrive(w) ==
  /\ now < MaxEditRequests
  /\ \E u \in EditSessions :
       \/ \E b \in EditBenCreateBodies : BeneficiaryPOST(w, u, b)
       \/ \E b \in EditBenPatchBodies : BeneficiaryPATCH(w, u, 2, b)
       \/ \E b \in EditCaseCreateBodies : CasePOST(w, u, b)
       \/ \E id \in {1, 2}, b \in EditCasePatchBodies : CasePATCH(w, u, id, b)
       \/ \E b \in EditServicePatchBodies : ServicePATCH(w, u, 1, b)

EditStep(w) ==
  \/ BeneficiaryPOST_Create(w)
  \/ BeneficiaryPATCH_Update(w)
  \/ CasePOST_Create(w)
  \/ CasePATCH_Update(w)
  \/ ServicePATCH_Update(w)
  \/ AuditWrite(w)
  \/ AuditWriteFails(w)

NextEdit == EditArrive("w1") \/ EditStep("w1")

SpecEdit == Init /\ [][NextEdit]_vars

(***************************************************************************)
(* Specification: two workers updating the status of the same case         *)
(***************************************************************************)
ResolveSessions == {"admin", "staff"}

ResolvePatchBodies ==
  {[title |-> Absent, status |-> s, beneficiaryId |-> AbsentId] :
     s \in {"RESOLVED", "IN_PROGRESS"}}

ResolveArrive(w) ==
  /\ now < MaxResolveRequests
  /\ \E u \in ResolveSessions, b \in ResolvePatchBodies : CasePATCH(w, u, 1, b)

ResolveStep(w) ==
  \/ CasePATCH_Update(w)
  \/ AuditWrite(w)
  \/ AuditWriteFails(w)

NextResolve == \E w \in Workers : ResolveArrive(w) \/ ResolveStep(w)

SpecResolve == Init /\ [][NextResolve]_vars

(***************************************************************************)
(* Specification: two workers, creates and updates that carry foreign keys *)
(* racing with the deletion of case 1                                      *)
(***************************************************************************)
IntegSessions == {"admin", "staff"}

IntegServiceCreateBodies ==
  {[type |-> "FOOD_DISTRIBUTION", beneficiaryId |-> 1, caseId |-> c] : c \in {1, 2}}

IntegServicePatchBodies ==
  {[type |-> Absent, beneficiaryId |-> AbsentId, caseId |-> 1]}

IntegCasePatchBodies ==
  {[title |-> Absent, status |-> Absent, beneficiaryId |-> b] : b \in {1, 9}}

IntegArrive(w) ==
  /\ now < MaxIntegRequests
  /\ \E u \in IntegSessions :
       \/ \E b \in IntegServiceCreateBodies : ServicePOST(w, u, b)
       \/ \E b \in IntegServicePatchBodies : ServicePATCH(w, u, 2, b)
       \/ \E b \in IntegCasePatchBodies : CasePATCH(w, u, 2, b)
       \/ CaseDELETE(w, u, 1)

IntegStep(w) ==
  \/ ServicePOST_FindCase(w)
  \/ ServicePOST_Create(w)
  \/ ServicePATCH_Update(w)
  \/ CasePATCH_Update(w)
  \/ CaseDELETE_Delete(w)
  \/ AuditWrite(w)
  \/ AuditWriteFails(w)

NextInteg == \E w \in Workers : IntegArrive(w) \/ IntegStep(w)

SpecInteg == Init /\ [][NextInteg]_vars

(***************************************************************************)
(* Specification: one worker on a store that starts empty (no seed run);   *)
(* payloads name the VOLUNTEER as assignee, and the VOLUNTEER reads        *)
(***************************************************************************)
InitEmpty ==
  /\ beneficiaries = <<>>
  /\ cases = <<>>
  /\ services = <<>>
  /\ auditLog = <<>>
  /\ now = 0
  /\ req = [w \in Workers |-> IdleReq]

FreshSessions == {"admin", "fw", "vol"}

\* the first request receives id 3, the second id 4
FreshTargets == {NewId(1), NewId(2)}

FreshBenCreateBodies ==
  {[firstName |-> "Ali", idNumber |-> Absent, status |-> Absent, assignedToId |-> a] :
     a \in {Absent, "vol"}}

FreshBenPatchBodies ==
  {[firstName |-> "Omar", idNumber |-> Absent, status |-> Absent, assignedToId |-> "vol"]}

FreshCaseCreateBodies ==
  {[title |-> "T", status |-> Absent, beneficiaryId |-> NewId(1), assignedTo |-> "vol"]}

FreshCasePatchBodies ==
  {[title |-> "U", status |-> Absent, beneficiaryId |-> AbsentId, assignedTo |-> "vol"]}

FreshServiceCreateBodies ==
  {[type |-> "FOOD_DISTRIBUTION", beneficiaryId |-> NewId(1), caseId |-> AbsentId]}

FreshBeneficiaryQueries == {[search |-> "", status |-> "", page |-> 1, limit |-> 10]}

FreshCaseQueries == {[status |-> "", beneficiaryId |-> NoId, page |-> 1, limit |-> 10]}

FreshServiceQueries == {[type |-> "", caseId |-> NoId, page |-> 1, limit |-> 10]}

FreshArrive(w) ==
  /\ now < MaxFreshRequests
  /\ \E u \in FreshSessions :
       \/ \E b \in FreshBenCreateBodies : BeneficiaryPOST(w, u, b)
       \/ \E id \in FreshTargets, b \in FreshBenPatchBodies : BeneficiaryPATCH(w, u, id, b)
       \/ \E b \in FreshCaseCreateBodies : CasePOST(w, u, b)
       \/ \E id \in FreshTargets, b \in FreshCasePatchBodies : CasePATCH(w, u, id, b)
       \/ \E b \in FreshServiceCreateBodies : ServicePOST(w, u, b)
       \/ \E id \in FreshTargets : BeneficiaryGET(w, u, id)
       \/ \E id \in FreshTargets : CaseGET(w, u, id)
       \/ \E id \in FreshTargets : ServiceGET(w, u, id)
       \/ \E q \in FreshBeneficiaryQueries : BeneficiaryLIST(w, u, q)
       \/ \E q \in FreshCaseQueries : CaseLIST(w, u, q)
       \/ \E q \in FreshServiceQueries : ServiceLIST(w, u, q)

FreshStep(w) ==
  \/ BeneficiaryPOST_Create(w)
  \/ BeneficiaryPATCH_Update(w)
  \/ CasePOST_Create(w)
  \/ CasePATCH_Update(w)
  \/ ServicePOST_Create(w)
  \/ AuditWrite(w)
  \/ AuditWriteFails(w)

NextFresh == FreshArrive("w1") \/ FreshStep("w1")

SpecFresh == InitEmpty /\ [][NextFresh]_vars

(***************************************************************************)
(* Properties                                                              *)
(***************************************************************************)
ScopedRoles == {"STAFF", "FIELD_WORKER", "VOLUNTEER"}

IsDone(r) == r.pc = "done"

Succeeded(r) == IsDone(r) /\ r.resp.status \in {200, 201}

\* the actor is the creator or an assignee of the stored row the request names
OwnsTarget(r) ==
  CASE r.op \in {"BeneficiaryGET", "BeneficiaryPATCH"} ->
         r.user \in {beneficiaries[r.id].createdById, beneficiaries[r.id].assignedToId}
    [] r.op \in {"CaseGET", "CasePATCH"} ->
         r.user = cases[r.id].createdById \/ r.user \in cases[r.id].assignedTo
    [] r.op \in {"ServiceGET", "ServicePATCH"} ->
         r.user = services[r.id].providedById
    [] OTHER -> FALSE

TargetExists(r) ==
  CASE r.op \in {"BeneficiaryGET", "BeneficiaryPATCH"} -> r.id \in DOMAIN beneficiaries
    [] r.op \in {"CaseGET", "CasePATCH"} -> r.id \in DOMAIN cases
    [] r.op \in {"ServiceGET", "ServicePATCH"} -> r.id \in DOMAIN services
    [] OTHER -> FALSE

\* C1: a single read of an existing Beneficiary, Case or Service by a STAFF,
\* FIELD_WORKER or VOLUNTEER actor succeeds (returning the entity) if and only
\* if the actor is its creator or assignee; otherwise it is Forbidden and
\* carries no entity data.
C1_ScopedReadIffOwner ==
  \A w \in Workers :
    LET r == req[w] IN
    (/\ IsDone(r)
     /\ r.op \in {"BeneficiaryGET", "CaseGET", "ServiceGET"}
     /\ RoleOf(r.user) \in ScopedRoles
     /\ TargetExists(r))
    => IF OwnsTarget(r)
       THEN r.resp.status = 200 /\ r.resp.data = r.id
       ELSE r.resp.status = 403 /\ r.resp.data = NoId

\* C2: an update of an existing Beneficiary, Case or Service by a STAFF or
\* FIELD_WORKER actor who is neither its creator nor an assignee is answered
\* Forbidden and never reaches the entity write.
C2_ScopedUpdateOnlyOwner ==
  \A w \in Workers :
    LET r == req[w] IN
    (/\ r.op \in {"BeneficiaryPATCH", "CasePATCH", "ServicePATCH"}
     /\ RoleOf(r.user) \in {"STAFF", "FIELD_WORKER"}
     /\ TargetExists(r)
     /\ ~OwnsTarget(r))
    => /\ IsDone(r)
       /\ r.resp.status = 403
       /\ r.resp.error = "Forbidden"
       /\ ~r.persisted

AuditIndexes(rid) == {i \in DOMAIN auditLog : auditLog[i].rid = rid}

ExpectedAudit ==
  [BeneficiaryPOST |-> "BENEFICIARY_CREATED", BeneficiaryPATCH |-> "BENEFICIARY_UPDATED",
   BeneficiaryDELETE |-> "BENEFICIARY_ARCHIVED", CasePOST |-> "CASE_CREATED",
   CasePATCH |-> "CASE_UPDATED", CaseDELETE |-> "CASE_DELETED",
   ServicePOST |-> "SERVICE_CREATED", ServicePATCH |-> "SERVICE_UPDATED",
   ServiceDELETE |-> "SERVICE_DELETED"]

C4_WriteAndAuditAtomic ==
  \A w \in Workers :
    (IsDone(req[w]) /\ req[w].persisted) => AuditIndexes(req[w].rid) # {}

\* a beneficiary create that passes requireRole and the schema
ValidCreate(r) ==
  /\ r.op = "BeneficiaryPOST"
  /\ RoleOf(r.user) \in Editors
  /\ beneficiarySchemaOk(r.body)

IsConflict(resp) ==
  /\ resp.status = 400
  /\ resp.error = DuplicateIdMsg
  /\ resp.error # ValidationMsg

NoSharedIdNumber ==
  \A a, b \in DOMAIN beneficiaries :
    (a # b /\ beneficiaries[a].idNumber # Null)
      => beneficiaries[a].idNumber # beneficiaries[b].idNumber

\* C5: of two beneficiary creates that carry the same idNumber and overlap in
\* any interleaving, one succeeds and the other is answered Conflict (never
\* another error kind), and no two beneficiaries ever hold that idNumber.
C5_RacingCreatesOneConflict ==
  /\ NoSharedIdNumber
  /\ \A w, v \in Workers :
       (/\ w # v
        /\ ValidCreate(req[w]) /\ ValidCreate(req[v])
        /\ Truthy(req[w].body.idNumber)
        /\ req[w].body.idNumber = req[v].body.idNumber
        /\ Succeeded(req[w])
        /\ IsDone(req[v]))
       => IsConflict(req[v].resp)

\* C6: in every reachable state no two distinct beneficiaries have the same
\* non-null idNumber.
C6_IdNumberUnique ==
  \A a, b \in DOMAIN beneficiaries :
    (a # b /\ beneficiaries[a].idNumber = beneficiaries[b].idNumber)
      => beneficiaries[a].idNumber = Null

\* a write was refused by the unique index while another row holds the value
C6_Witness ==
  \E w \in Workers :
    /\ IsDone(req[w]) /\ req[w].op = "BeneficiaryPOST"
    /\ req[w].resp.status = 500 /\ ~req[w].persisted
    /\ \E b \in DOMAIN beneficiaries : beneficiaries[b].idNumber = req[w].body.idNumber

\* C7: a beneficiary create whose non-null idNumber is held by a stored
\* beneficiary when the handler looks is answered Conflict (distinct from a
\* ValidationError) and changes neither the beneficiaries nor the audit log.
C7_DuplicateCreateIsConflict ==
  [][\A w \in Workers :
       (/\ req'[w].rid = now' /\ now' # now
        /\ ValidCreate(req'[w])
        /\ req'[w].body.idNumber \notin {Absent, Null}
        /\ FindByIdNumber(beneficiaries, req'[w].body.idNumber) # {})
       => /\ IsDone(req'[w])
          /\ IsConflict(req'[w].resp)
          /\ beneficiaries' = beneficiaries
          /\ auditLog' = auditLog]_vars

\* the step in which worker w's awaited entity write commits
Commits(w, op) ==
  /\ req[w].op = op
  /\ req[w].pc = "write"
  /\ req'[w].pc = "audit"

C11_ArchivedOnlyByAdmins ==
  [][\A b \in DOMAIN beneficiaries' :
       (/\ beneficiaries'[b].status = "ARCHIVED"
        /\ b \in DOMAIN beneficiaries => beneficiaries[b].status # "ARCHIVED")
         => \E w \in Workers :
              /\ req[w].pc = "write" /\ req'[w].pc = "audit"
              /\ RoleOf(req[w].user) \in {"ADMIN", "SUPER_ADMIN"}]_vars

DeleteOps == {"BeneficiaryDELETE", "CaseDELETE", "ServiceDELETE"}

MutatingOps ==
  {"BeneficiaryPOST", "BeneficiaryPATCH", "BeneficiaryDELETE", "CasePOST", "CasePATCH",
   "CaseDELETE", "ServicePOST", "ServicePATCH", "ServiceDELETE"}

\* worker w's request arrives in this step
Arrives(w) == req'[w].rid = now' /\ now' # now

StoreUnchanged ==
  /\ beneficiaries' = beneficiaries
  /\ cases' = cases
  /\ services' = services
  /\ auditLog' = auditLog

\* C12: an archive or delete request by a STAFF, FIELD_WORKER or VOLUNTEER
\* actor is answered Forbidden on arrival, for an existing and for a missing
\* target alike, and changes neither the entity store nor the audit log.
C12_DeleteByNonAdminForbidden ==
  [][\A w \in Workers :
       (/\ Arrives(w)
        /\ req'[w].op \in DeleteOps
        /\ RoleOf(req'[w].user) \in ScopedRoles)
       => /\ IsDone(req'[w])
          /\ req'[w].resp = Response(403, "Forbidden", NoId)
          /\ ~req'[w].persisted
          /\ StoreUnchanged]_vars

\* STAFF was refused the deletion of a case that does not exist, after an
\* earlier mutation had gone through
C12_Witness ==
  \E w \in Workers :
    /\ IsDone(req[w]) /\ req[w].op = "CaseDELETE" /\ req[w].user = "staff"
    /\ req[w].id \notin DOMAIN cases
    /\ req[w].resp.status = 403
    /\ Len(auditLog) = 1
    /\ cases = SeedCases

ListOps == {"BeneficiaryLIST", "CaseLIST", "ServiceLIST"}

\* C14: a request without a session, whatever the route (single read, list,
\* dashboard, create, update, archive, delete), is refused on arrival: it is
\* answered 401 or 403 with no entity data and no list payload, and changes
\* neither the entity store nor the audit log.
C14_NoSessionDenied ==
  [][\A w \in Workers :
       (/\ Arrives(w)
        /\ req'[w].user = Null)
       => /\ IsDone(req'[w])
          /\ req'[w].resp.status \in {401, 403}
          /\ req'[w].resp.data = NoId
          /\ req'[w].list = NoList
          /\ ~req'[w].persisted
          /\ StoreUnchanged]_vars

\* the dashboard was refused to a caller without a session while the store
\* holds an audited change
C14_Witness ==
  \E w \in Workers :
    /\ IsDone(req[w]) /\ req[w].op = "DashboardGET" /\ req[w].user = Null
    /\ req[w].resp.status = 401
    /\ req[w].list = NoList
    /\ Len(auditLog) = 1

\* an authenticated actor whose role is not admitted by the route, or who is
\* FIELD_WORKER or VOLUNTEER and reads a stored entity of somebody else
RoleOrOwnershipDenied(r) ==
  /\ r.user # Null
  /\ \/ r.op \in DeleteOps /\ RoleOf(r.user) \notin {"ADMIN", "SUPER_ADMIN"}
     \/ r.op \in MutatingOps /\ RoleOf(r.user) = "VOLUNTEER"
     \/ /\ r.op \in {"BeneficiaryGET", "CaseGET", "ServiceGET"}
        /\ RoleOf(r.user) \in {"FIELD_WORKER", "VOLUNTEER"}
        /\ TargetExists(r) /\ ~OwnsTarget(r)

\* C15: on every route a finished request without a session carries the
\* Unauthorized kind (status 401) and a finished request of an authenticated
\* actor with an insufficient role or ownership carries the Forbidden kind
\* (status 403), so that the status code tells the two apart.
C15_UnauthorizedVersusForbidden ==
  \A w \in Workers :
    LET r == req[w] IN
    IsDone(r) =>
      /\ r.user = Null => r.resp.status = 401 /\ r.resp.error = "Unauthorized"
      /\ RoleOrOwnershipDenied(r) => r.resp.status = 403 /\ r.resp.error = "Forbidden"

Elems(seq) == {seq[i] : i \in DOMAIN seq}

\* the actor is the creator or an assignee of a stored row of the listed kind
InScope(op, user, id) ==
  CASE op = "BeneficiaryLIST" ->
         user \in {beneficiaries[id].createdById, beneficiaries[id].assignedToId}
    [] op = "CaseLIST" -> user = cases[id].createdById \/ user \in cases[id].assignedTo
    [] op = "ServiceLIST" -> user = services[id].providedById
    [] OTHER -> FALSE

\* the caller's own filter, as the list operation is specified to apply it
CallerFilter(op, q, id) ==
  CASE op = "BeneficiaryLIST" ->
         /\ q.status # "" => beneficiaries[id].status = q.status
         /\ q.search # "" => SearchMatches(beneficiaries[id], q.search)
    [] op = "CaseLIST" ->
         /\ q.status # "" => cases[id].status = q.status
         /\ q.beneficiaryId # NoId => cases[id].beneficiaryId = q.beneficiaryId
    [] op = "ServiceLIST" ->
         /\ q.type # "" => services[id].type = q.type
         /\ q.caseId # NoId => services[id].caseId = q.caseId
    [] OTHER -> FALSE

Rows(op) ==
  CASE op = "BeneficiaryLIST" -> DOMAIN beneficiaries
    [] op = "CaseLIST" -> DOMAIN cases
    [] op = "ServiceLIST" -> DOMAIN services
    [] OTHER -> {}

HasFilter(op, q) ==
  CASE op = "BeneficiaryLIST" -> q.status # "" \/ q.search # ""
    [] op = "CaseLIST" -> q.status # "" \/ q.beneficiaryId # NoId
    [] op = "ServiceLIST" -> q.type # "" \/ q.caseId # NoId
    [] OTHER -> FALSE

\* C17: a list answered to a STAFF, FIELD_WORKER or VOLUNTEER actor holds only
\* rows the actor created or is assigned to, and its total is the number of
\* stored rows in the actor's scope that match the caller's filter; for ADMIN
\* and SUPER_ADMIN the total is the number of rows that match the filter.
C17_ListScopedToActor ==
  \A w \in Workers :
    LET r == req[w]
        scoped == RoleOf(r.user) \in ScopedRoles
    IN (IsDone(r) /\ r.op \in ListOps /\ r.resp.status = 200)
       => /\ scoped => \A id \in Elems(r.list.items) : InScope(r.op, r.user, id)
          /\ r.list.total =
               Cardinality({id \in Rows(r.op) :
                              /\ CallerFilter(r.op, r.body, id)
                              /\ scoped => InScope(r.op, r.user, id)})

\* C18: when a STAFF, FIELD_WORKER or VOLUNTEER actor lists with a filter
\* (search, status, type), every returned row satisfies the filter and the
\* scope, and the total counts exactly the rows satisfying both.
C18_ScopeConjoinedWithFilter ==
  \A w \in Workers :
    LET r == req[w]
        both == {id \in Rows(r.op) : CallerFilter(r.op, r.body, id) /\ InScope(r.op, r.user, id)}
    IN (/\ IsDone(r) /\ r.op \in ListOps /\ r.resp.status = 200
        /\ RoleOf(r.user) \in ScopedRoles
        /\ HasFilter(r.op, r.body))
       => /\ Elems(r.list.items) \subseteq both
          /\ r.list.total = Cardinality(both)

\* C16: the write of a DeleteCase removes, with the case, every service whose
\* caseId names it.
C16_DeleteCaseRemovesItsServices ==
  [][\A w \in Workers :
       Commits(w, "CaseDELETE")
         => \A v \in DOMAIN services :
              services[v].caseId = req[w].id => v \notin DOMAIN services']_vars

\* C19: no step removes a beneficiary, and the write of the beneficiary
\* delete route keeps the row and leaves it with status ARCHIVED.
C19_BeneficiaryNeverRemoved ==
  [][/\ DOMAIN beneficiaries \subseteq DOMAIN beneficiaries'
     /\ \A w \in Workers :
          Commits(w, "BeneficiaryDELETE")
            => /\ DOMAIN beneficiaries' = DOMAIN beneficiaries
               /\ beneficiaries'[req[w].id].status = "ARCHIVED"]_vars

\* both seeded beneficiaries were deleted through the route and are still
\* stored
C19_Witness ==
  /\ Len(auditLog) = 2
  /\ \A i \in 1..2 : auditLog[i].action = "BENEFICIARY_ARCHIVED"
  /\ auditLog[1].target # auditLog[2].target
  /\ DOMAIN beneficiaries = {1, 2}
  /\ \A b \in {1, 2} : beneficiaries[b].status = "ARCHIVED"

\* the entities a create payload names
RefsExist(r) ==
  CASE r.op = "CasePOST" -> r.body.beneficiaryId \in DOMAIN beneficiaries
    [] r.op = "ServicePOST" ->
         /\ r.body.beneficiaryId \in DOMAIN beneficiaries
         /\ r.body.caseId \in {AbsentId, NoId} \/ r.body.caseId \in DOMAIN cases
    [] OTHER -> TRUE

\* C20: the insert of a CreateCase or CreateService commits only while the
\* beneficiary, and the case if one is named, are stored; when a named entity
\* is missing at the insert the create ends in an error and changes neither
\* the store nor the audit log; only a create whose insert committed is
\* answered 201 or has an audit entry.
C20_CreateNeedsExistingReferences ==
  [][\A w \in Workers :
       /\ (Commits(w, "CasePOST") \/ Commits(w, "ServicePOST")) => RefsExist(req[w])
       /\ (/\ req[w].op \in {"CasePOST", "ServicePOST"}
           /\ req[w].pc = "write" /\ req'[w] # req[w]
           /\ ~RefsExist(req[w]))
            => /\ IsDone(req'[w])
               /\ req'[w].resp.status \notin {200, 201}
               /\ ~req'[w].persisted
               /\ StoreUnchanged
       /\ (/\ req'[w].op \in {"CasePOST", "ServicePOST"}
           /\ ~req'[w].persisted)
            => /\ req'[w].resp.status \notin {200, 201}
               /\ \A i \in DOMAIN auditLog' : auditLog'[i].rid # req'[w].rid]_vars

\* a service create passed the case lookup, the case was deleted before its
\* insert, and the insert was refused
C20_Witness ==
  \E w \in Workers :
    /\ IsDone(req[w]) /\ req[w].op = "ServicePOST"
    /\ req[w].body.caseId = 1 /\ 1 \notin DOMAIN cases
    /\ req[w].resp.status = 500 /\ ~req[w].persisted
    /\ \A v \in DOMAIN services : services[v].providedById # req[w].user \/ v \in DOMAIN SeedServices

\* C21: no step changes the beneficiaryId of a stored case.
C21_CaseBeneficiaryImmutable ==
  [][\A c \in DOMAIN cases \cap DOMAIN cases' :
       cases'[c].beneficiaryId = cases[c].beneficiaryId]_vars

\* C22: no step changes the createdById of a stored beneficiary, and a
\* beneficiary enters the store only through the insert of a create, with
\* createdById the acting user and, when the payload names no assignee,
\* assignedToId the acting user as well.
C22_CreatorFixedAssigneeDefaults ==
  [][/\ \A b \in DOMAIN beneficiaries :
          /\ b \in DOMAIN beneficiaries'
          /\ beneficiaries'[b].createdById = beneficiaries[b].createdById
     /\ \A b \in DOMAIN beneficiaries' \ DOMAIN beneficiaries :
          \E w \in Workers :
            /\ Commits(w, "BeneficiaryPOST")
            /\ req'[w].id = b
            /\ beneficiaries'[b].createdById = req[w].user
            /\ req[w].body.assignedToId = Absent
                 => beneficiaries'[b].assignedToId = req[w].user]_vars

\* STAFF created a beneficiary, which is assigned to STAFF, and the seeded
\* beneficiary 2 was renamed by ADMIN and still has its creator
C22_Witness ==
  \E w \in Workers :
    /\ Succeeded(req[w]) /\ req[w].op = "BeneficiaryPATCH" /\ req[w].user = "admin"
    /\ beneficiaries[2].firstName = "Ali" /\ beneficiaries[2].createdById = "fw"
    /\ \E b \in DOMAIN beneficiaries \ DOMAIN SeedBeneficiaries :
         /\ beneficiaries[b].createdById = "staff"
         /\ beneficiaries[b].assignedToId = "staff"

\* the payload fails the schema of the route
Malformed(r) ==
  CASE r.op = "BeneficiaryPOST" -> ~beneficiarySchemaOk(r.body)
    [] r.op = "BeneficiaryPATCH" -> ~beneficiaryPartialOk(r.body)
    [] r.op = "CasePOST" -> ~caseSchemaOk(r.body)
    [] r.op = "CasePATCH" -> ~casePartialOk(r.body)
    [] r.op = "ServicePOST" -> ~serviceSchemaOk(r.body)
    [] r.op = "ServicePATCH" -> ~servicePartialOk(r.body)
    [] OTHER -> FALSE

\* the actor's role does not admit the operation, or the actor is STAFF or
\* FIELD_WORKER and updates a stored entity of somebody else
NotAuthorized(r) ==
  \/ r.op \in MutatingOps /\ RoleOf(r.user) = "VOLUNTEER"
  \/ r.op \in DeleteOps /\ RoleOf(r.user) \notin {"ADMIN", "SUPER_ADMIN"}
  \/ /\ r.op \in {"BeneficiaryPATCH", "CasePATCH", "ServicePATCH"}
     /\ RoleOf(r.user) \in {"STAFF", "FIELD_WORKER"}
     /\ TargetExists(r) /\ ~OwnsTarget(r)

\* C23: a mutating request that is malformed is finished on arrival without
\* an entity write or an audit write, and when its actor is also not
\* authorized (by role or by ownership) the answer is Forbidden, not
\* ValidationError.
C23_AuthorizationBeforeValidation ==
  [][\A w \in Workers :
       (/\ Arrives(w)
        /\ req'[w].user # Null
        /\ Malformed(req'[w]))
       => /\ IsDone(req'[w])
          /\ ~req'[w].persisted
          /\ StoreUnchanged
          /\ NotAuthorized(req'[w]) => req'[w].resp = Response(403, "Forbidden", NoId)]_vars

\* C24: every step leaves the audit log an extension of what it was: the
\* entries already written keep their place and their content.
C24_AuditLogAppendOnly ==
  [][/\ Len(auditLog') >= Len(auditLog)
     /\ \A i \in DOMAIN auditLog : auditLog'[i] = auditLog[i]]_vars

\* two requests of different kinds were audited one after the other
C24_Witness ==
  /\ Len(auditLog) = 2
  /\ auditLog[1].action = "CASE_DELETED"
  /\ auditLog[2].action = "SERVICE_CREATED"
  /\ auditLog[1].rid > auditLog[2].rid

ReadOps == {"BeneficiaryGET", "CaseGET", "ServiceGET", "DashboardGET"} \cup ListOps

\* C25: a single read, a list and the dashboard read finish on arrival and
\* change no beneficiary, case or service and no audit entry; the entity
\* tables change only in the write step of a create, update, archive or
\* delete, and the audit log only in the audit step of one.
C25_ReadsChangeNothing ==
  [][/\ \A w \in Workers :
          (Arrives(w) /\ req'[w].op \in ReadOps)
            => IsDone(req'[w]) /\ ~req'[w].persisted /\ StoreUnchanged
     /\ <<beneficiaries, cases, services>>' # <<beneficiaries, cases, services>>
          => \E w \in Workers :
               req[w].op \in MutatingOps /\ req[w].pc = "write" /\ req'[w].pc = "audit"
     /\ auditLog' # auditLog
          => \E w \in Workers :
               req[w].op \in MutatingOps /\ req[w].pc = "audit" /\ IsDone(req'[w])]_vars

\* the dashboard was answered to the FIELD_WORKER after an audited change
C25_Witness ==
  \E w \in Workers :
    /\ IsDone(req[w]) /\ req[w].op = "DashboardGET" /\ req[w].user = "fw"
    /\ req[w].resp.status = 200
    /\ req[w].list.items # <<>>
    /\ Len(auditLog) = 1

CreateOps == {"BeneficiaryPOST", "CasePOST", "ServicePOST"}

\* C26: a create by a STAFF or FIELD_WORKER actor is never answered 403, and
\* when its payload is well-formed and the entities it names are stored it
\* proceeds to its lookup or insert, whoever owns those entities.
C26_CreateNeverForbidden ==
  [][\A w \in Workers :
       (/\ Arrives(w)
        /\ req'[w].op \in CreateOps
        /\ RoleOf(req'[w].user) \in {"STAFF", "FIELD_WORKER"})
       => /\ req'[w].resp.status # 403
          /\ (/\ ~Malformed(req'[w])
              /\ RefsExist(req'[w])
              /\ req'[w].op # "BeneficiaryPOST")
               => req'[w].pc \in {"lookup", "write"}]_vars

\* STAFF opened a case on a beneficiary it neither created nor is assigned to
C26_Witness ==
  \E w \in Workers :
    /\ Succeeded(req[w]) /\ req[w].op = "CasePOST" /\ req[w].user = "staff"
    /\ req[w].id \in DOMAIN cases
    /\ LET b == beneficiaries[cases[req[w].id].beneficiaryId]
       IN b.createdById # "staff" /\ b.assignedToId # "staff"

\* C27: the write of an UpdateCase that does not move the stored status from
\* a non-RESOLVED value to RESOLVED leaves resolvedAt as it was; a resolvedAt
\* that changes takes the time of the request, never a value of the payload;
\* no other step touches resolvedAt.
C27_ResolvedAtUntouchedOtherwise ==
  [][\A c \in DOMAIN cases \cap DOMAIN cases' :
       /\ \A w \in Workers :
            (/\ Commits(w, "CasePATCH") /\ req[w].id = c
             /\ ~(req[w].body.status = "RESOLVED" /\ cases[c].status # "RESOLVED"))
            => cases'[c].resolvedAt = cases[c].resolvedAt
       /\ cases'[c].resolvedAt # cases[c].resolvedAt
            => \E w \in Workers :
                 /\ Commits(w, "CasePATCH") /\ req[w].id = c
                 /\ cases'[c].resolvedAt = req[w].rid]_vars

\* a payload carrying resolvedAt was applied to a resolved case, whose stamp
\* is still the time of the request that resolved it
C27_Witness ==
  \E w \in Workers :
    /\ Succeeded(req[w]) /\ req[w].op = "CasePATCH" /\ req[w].rid = 2
    /\ req[w].body.resolvedAt \in {Null, "2020-01-01"}
    /\ cases[req[w].id].title = "T"
    /\ cases[req[w].id].status = "RESOLVED"
    /\ cases[req[w].id].resolvedAt = 1

\* the payload of an update names a beneficiary or a case that is not stored
NamesAbsent(r) ==
  CASE r.op = "CasePATCH" ->
         r.body.beneficiaryId # AbsentId /\ r.body.beneficiaryId \notin DOMAIN beneficiaries
    [] r.op = "ServicePATCH" ->
         \/ r.body.beneficiaryId # AbsentId /\ r.body.beneficiaryId \notin DOMAIN beneficiaries
         \/ r.body.caseId \notin {AbsentId, NoId} /\ r.body.caseId \notin DOMAIN cases
    [] OTHER -> FALSE

\* C28: an update of a case or a service whose payload names an entity that
\* is not stored, sent by an actor allowed to update the stored target, is
\* finished on arrival as a ValidationError (status 400), with no write.
C28_UpdateChecksReferences ==
  [][\A w \in Workers :
       (/\ Arrives(w)
        /\ req'[w].op \in {"CasePATCH", "ServicePATCH"}
        /\ RoleOf(req'[w].user) \in {"ADMIN", "SUPER_ADMIN"}
        /\ TargetExists(req'[w])
        /\ NamesAbsent(req'[w]))
       => /\ IsDone(req'[w])
          /\ req'[w].resp.status = 400
          /\ StoreUnchanged]_vars

\* C29: a write that sets RESOLVED on a case that is stored as RESOLVED with
\* a stamp (another request resolved it in between) keeps that stamp.
C29_ConcurrentResolveStampsOnce ==
  [][\A w \in Workers :
       (/\ Commits(w, "CasePATCH")
        /\ req[w].body.status = "RESOLVED"
        /\ cases[req[w].id].status = "RESOLVED"
        /\ cases[req[w].id].resolvedAt # NoId)
       => cases'[req[w].id].resolvedAt = cases[req[w].id].resolvedAt]_vars

\* C30: every stored case whose status is RESOLVED has a resolvedAt.
C30_ResolvedHasStamp ==
  \A c \in DOMAIN cases : cases[c].status = "RESOLVED" => cases[c].resolvedAt # NoId

\* C31: every stored case names a stored beneficiary, every stored service
\* names a stored beneficiary, and every stored service with a caseId names
\* a stored case.
C31_ReferencesResolve ==
  /\ \A c \in DOMAIN cases : cases[c].beneficiaryId \in DOMAIN beneficiaries
  /\ \A v \in DOMAIN services :
       /\ services[v].beneficiaryId \in DOMAIN beneficiaries
       /\ services[v].caseId # NoId => services[v].caseId \in DOMAIN cases

\* case 1 was deleted while a create or an update of a service naming it was
\* between its entry and its write; that request ended in an error, and the
\* seeded service of case 1 is stored without a case
C31_Witness ==
  /\ 1 \notin DOMAIN cases
  /\ services[1].caseId = NoId
  /\ \E w \in Workers :
       /\ IsDone(req[w]) /\ req[w].op \in {"ServicePOST", "ServicePATCH"}
       /\ req[w].body.caseId = 1
       /\ req[w].resp.status = 500
       /\ ~req[w].persisted

\* C34: a CreateService whose case is stored passes the case lookup whatever
\* beneficiary that case belongs to, and its insert stores the beneficiaryId
\* and the caseId of the payload as given.
C34_CreateServiceIgnoresMismatch ==
  [][\A w \in Workers :
       /\ (/\ req[w].op = "ServicePOST" /\ req[w].pc = "lookup" /\ req'[w] # req[w]
           /\ req[w].body.caseId \in DOMAIN cases)
            => req'[w].pc = "write"
       /\ Commits(w, "ServicePOST")
            => /\ req'[w].id \in DOMAIN services' \ DOMAIN services
               /\ services'[req'[w].id].beneficiaryId = req[w].body.beneficiaryId
               /\ services'[req'[w].id].caseId =
                    (IF req[w].body.caseId = AbsentId THEN NoId ELSE req[w].body.caseId)]_vars

\* a service was created for beneficiary 1 under case 2, which belongs to
\* beneficiary 2, and the create was answered 201
C34_Witness ==
  \E w \in Workers :
    /\ Succeeded(req[w]) /\ req[w].op = "ServicePOST"
    /\ req[w].resp.status = 201
    /\ req[w].id \in DOMAIN services
    /\ services[req[w].id].beneficiaryId = 1
    /\ services[req[w].id].caseId = 2
    /\ cases[2].beneficiaryId = 2

SingleReadOps == {"BeneficiaryGET", "CaseGET", "ServiceGET"}

ActiveQuery == [search |-> "", status |-> "ACTIVE", page |-> 1, limit |-> 10]

\* C33: in a dashboard answer to a STAFF, FIELD_WORKER or VOLUNTEER actor the
\* active-beneficiary count and the active-case count number only rows the
\* actor created or is assigned to, and for every actor the active-beneficiary
\* count is the total the beneficiary list gives that actor for status=ACTIVE.
C33_DashboardScopedLikeLists ==
  \A w \in Workers :
    LET r == req[w]
    IN (IsDone(r) /\ r.op = "DashboardGET" /\ r.resp.status = 200)
       => /\ RoleOf(r.user) \in ScopedRoles
               => /\ r.list.total =
                       Cardinality({b \in DOMAIN beneficiaries :
                                      /\ beneficiaries[b].status = "ACTIVE"
                                      /\ InScope("BeneficiaryLIST", r.user, b)})
                  /\ r.list.activeCases =
                       Cardinality({c \in DOMAIN cases :
                                      /\ cases[c].status \in {"OPEN", "IN_PROGRESS"}
                                      /\ InScope("CaseLIST", r.user, c)})
          /\ r.list.total =
               Cardinality({b \in DOMAIN beneficiaries :
                              BeneficiaryWhere(r.user, ActiveQuery, beneficiaries[b])})

====
